---- MODULE Spec2Model ----
(***************************************************************************)
(* The Redis-backed stores of backend/app/repositories:                    *)
(*   UserSessionRepository        (user_session_repository.py)             *)
(*   PasswordResetTokenRepository (reset_password_repository.py)           *)
(*                                                                         *)
(* Time is counted in whole hours (the unit of ttl_hours); every           *)
(* datetime.now() of one handler step reads the same clock value.  The     *)
(* store-level expiry of a key is int(expires_at.timestamp()), at most one *)
(* second before expires_at, so on the hour grid a key is gone at every    *)
(* instant now >= its expiry.                                              *)
(*                                                                         *)
(* A Redis database is a record of partial functions: a key that does not  *)
(* exist is outside the DOMAIN.  A pipeline (MULTI/EXEC) is the            *)
(* composition of its buffered commands, applied in one step.              *)
(***************************************************************************)
EXTENDS Integers, FiniteSets, Sequences, TLC

\* ------------------------------------------------------------------ bounds
MaxTokens == 3
MaxResetTokens == 2
MaxTime == 2
MaxSleepTime == 26
NumUsers == 2
\* self.MAX_SESSIONS_PER_USER (15 in the source), scaled to the token bound
MAX_SESSIONS_PER_USER == 1

\* ------------------------------------------------------- program constants
INACTIVITY_TIMEOUT_MINUTES == 30
IP_INDEX_TTL_SECONDS == 86400

Tokens == 1..MaxTokens
ResetTokens == 1..MaxResetTokens
\* the tokens a caller can present: those create has generated so far
\* (token i is the one generated for id i)
Presented(seq) == 1..seq
Users == 1..NumUsers
ResetUsers == {1}
Ips == {1}
TtlHours == {1, 2}
ExtendHours == {1}
\* the time-to-live of the sessions that revoke_user_sessions is run over
LongTtlHours == {2}
ExpiryMinutes == {60, 120}
IpIndexTtlHours == IP_INDEX_TTL_SECONDS \div 3600

\* ------------------------------------------------------------- Redis model
EmptyMap == [x \in {} |-> 0]

Without(f, k) == [x \in DOMAIN f \ {k} |-> f[x]]

\* HSET key mapping: creates the key (without expiry) when it does not exist
HSet(hash, k, mapping) ==
    IF k \in DOMAIN hash THEN [hash EXCEPT ![k] = mapping @@ hash[k]]
    ELSE (k :> mapping) @@ hash

\* ZADD key {member: score}
ZAdd(z, m, score) == (m :> score) @@ z

\* ZREM key member
ZRem(z, m) == Without(z, m)

\* ZCARD key
ZCard(z) == Cardinality(DOMAIN z)

\* ZRANGEBYSCORE / ZCOUNT key min max (inclusive bounds)
ZRangeByScore(z, lo, hi) == {m \in DOMAIN z : lo <= z[m] /\ z[m] <= hi}

ZFrom(z, lo) == {m \in DOMAIN z : lo <= z[m]}

ZUpTo(z, hi) == {m \in DOMAIN z : z[m] <= hi}

\* ZRANGE key 0 0: a member of lowest score (ties: the lexically first of
\* the random token strings, any of them here)
ZFirst(z) == {m \in DOMAIN z : \A o \in DOMAIN z : z[m] <= z[o]}

\* SADD / SREM on a family of sets; a set that becomes empty is no key
SAdd(sets, k, m) ==
    IF k \in DOMAIN sets THEN [sets EXCEPT ![k] = @ \cup {m}]
    ELSE (k :> {m}) @@ sets

SRem(sets, k, m) ==
    IF k \notin DOMAIN sets THEN sets
    ELSE IF sets[k] \ {m} = {} THEN Without(sets, k)
    ELSE [sets EXCEPT ![k] = @ \ {m}]

\* keys whose store-level expiry has been reached at time t
Expired(ttl, t) == {k \in DOMAIN ttl : ttl[k] <= t}

Restrict(f, gone) == [x \in DOMAIN f \ gone |-> f[x]]

\* ------------------------------------------------------------------- state
VARIABLES
    now,    \* the wall clock, in hours
    sdb,    \* Redis keys under "session:"
    rdb,    \* Redis keys under "reset_token:"
    task,   \* the handlers in flight: task[p].pc and their locals
    hist,   \* what the callers have been told so far
    ret     \* what the last call returned

vars == <<now, sdb, rdb, task, hist, ret>>

\* the tasks of the event loop that can hold a call in flight
Workers == {1, 2, 3}

Procs == {1, 2}

NoData == EmptyMap

\* what a call returns: a value, or the count of a maintenance call
Ret(val, n) == [val |-> val, n |-> n]

IdleTask == [pc |-> "idle"]

\* ------------------------------------------------- UserSessionRepository
SessionDbInit ==
    [ hash |-> EmptyMap,      \* SESSION_KEY: token -> hash
      ttl |-> EmptyMap,       \* expiry of the SESSION_KEY keys
      user |-> [u \in Users |-> EmptyMap],   \* USER_SESSIONS_KEY zsets
      expiry |-> EmptyMap,    \* SESSION_EXPIRY_KEY zset
      activity |-> EmptyMap,  \* ACTIVITY_KEY zset
      ip |-> EmptyMap,        \* IP_SESSIONS_KEY sets
      ipttl |-> EmptyMap,     \* expiry of the IP_SESSIONS_KEY keys
      byid |-> EmptyMap,      \* SESSION_BY_ID_KEY strings
      seq |-> 0 ]             \* id_seq

SessionFields ==
    {"id", "user_id", "session_token", "expires_at", "ip_address",
     "user_agent", "last_activity_at", "created_at"}

\* get: HGETALL; None when the key holds nothing
SGet(db, t) == IF t \in DOMAIN db.hash THEN db.hash[t] ELSE NoData

\* get_by_id: GET of the id mapping, then get
GetById(db, id) ==
    IF id \in DOMAIN db.byid THEN SGet(db, db.byid[id]) ELSE NoData

\* the keys' own expiry, applied when the clock reaches t
SessionSelfExpire(db, t) ==
    LET gone == Expired(db.ttl, t)
        ipgone == Expired(db.ipttl, t)
    IN [db EXCEPT !.hash = Restrict(@, gone),
                  !.ttl = Restrict(@, gone),
                  !.ip = Restrict(@, ipgone),
                  !.ipttl = Restrict(@, ipgone)]

SExpireAtNeverDeletes(db, k, when, t) ==
    IF k \notin DOMAIN db.hash THEN db
    ELSE [db EXCEPT !.ttl = (k :> when) @@ @]

\* EXPIREAT key when: nothing on a missing key, deletes at a past instant
SExpireAt(db, k, when, t) ==
    IF k \notin DOMAIN db.hash THEN db
    ELSE IF when <= t
        THEN [db EXCEPT !.hash = Without(@, k), !.ttl = Without(@, k)]
    ELSE [db EXCEPT !.ttl = (k :> when) @@ @]

\* EXPIRE ip_sessions_key 86400
SExpireIp(db, ipk, t) ==
    IF ipk \notin DOMAIN db.ip THEN db
    ELSE [db EXCEPT !.ipttl = (ipk :> (t + IpIndexTtlHours)) @@ @]

\* SREM on an IP set; the key and its expiry go with the last member
SRemIp(db, ipk, m) ==
    LET left == SRem(db.ip, ipk, m)
    IN [db EXCEPT !.ip = left,
                  !.ipttl = Restrict(@, DOMAIN @ \ DOMAIN left)]

\* _check_session_limits
CheckSessionLimits(db, u, t) ==
    LET session_count == ZCard(db.user[u])
        expired_count == Cardinality(ZUpTo(db.user[u], t))
    IN ~(/\ session_count >= MAX_SESSIONS_PER_USER
         /\ session_count - expired_count >= MAX_SESSIONS_PER_USER)

\* session_data of create
SessionData(id, u, tok, ipa, exp, t) ==
    [ id |-> id, user_id |-> u, session_token |-> tok, expires_at |-> exp,
      ip_address |-> ipa, user_agent |-> 0, last_activity_at |-> t,
      created_at |-> t ]

\* the pipeline of create, executed
CreatePipeline(db, sd, t) ==
    LET tok == sd.session_token
        d1 == [db EXCEPT !.hash = HSet(@, tok, sd)]
        d2 == SExpireAt(d1, tok, sd.expires_at, t)
        d3 == [d2 EXCEPT !.user[sd.user_id] = ZAdd(@, tok, sd.expires_at),
                         !.expiry = ZAdd(@, tok, sd.expires_at),
                         !.activity = ZAdd(@, tok, sd.last_activity_at),
                         !.ip = SAdd(@, sd.ip_address, tok)]
        d4 == SExpireIp(d3, sd.ip_address, t)
    IN [d4 EXCEPT !.byid = (sd.id :> tok) @@ @]

\* the pipeline of delete, executed
DeletePipeline(db, t, sd) ==
    LET d1 == [db EXCEPT !.hash = Without(@, t), !.ttl = Without(@, t)]
        d2 == [d1 EXCEPT !.user[sd.user_id] = ZRem(@, t),
                         !.expiry = ZRem(@, t),
                         !.activity = ZRem(@, t)]
        d3 == SRemIp(d2, sd.ip_address, t)
    IN IF "id" \in DOMAIN sd THEN [d3 EXCEPT !.byid = Without(@, sd.id)]
       ELSE d3

\* delete: the database it leaves and what it returns
DeleteResult(db, t, ok) ==
    LET sd == SGet(db, t)
    IN IF sd = NoData THEN [db |-> db, val |-> "False"]
       ELSE IF ~({"user_id", "ip_address"} \subseteq DOMAIN sd)
           THEN [db |-> db, val |-> "KeyError"]
       ELSE IF ~ok THEN [db |-> db, val |-> "False"]
       ELSE [db |-> DeletePipeline(db, t, sd), val |-> "True"]

\* the pipeline of update_activity, executed
UpdateActivityPipeline(db, t, at) ==
    [db EXCEPT !.hash = HSet(@, t, [last_activity_at |-> at]),
               !.activity = ZAdd(@, t, at)]

\* the pipeline of extend without its ZADD on the owner's index
ExtendPipelineNoOwnerIndex(db, t, u, new_expiry, at) ==
    LET d1 == [db EXCEPT !.hash = HSet(@, t, [expires_at |-> new_expiry])]
        d2 == SExpireAt(d1, t, new_expiry, at)
    IN [d2 EXCEPT !.expiry = ZAdd(@, t, new_expiry)]

\* the pipeline of extend, executed
ExtendPipeline(db, t, u, new_expiry, at) ==
    LET d1 == [db EXCEPT !.hash = HSet(@, t, [expires_at |-> new_expiry])]
        d2 == SExpireAt(d1, t, new_expiry, at)
    IN [d2 EXCEPT !.expiry = ZAdd(@, t, new_expiry),
                  !.user[u] = ZAdd(@, t, new_expiry)]

\* find_by_user(user_id, active_only=True): the tokens of the records returned
FindByUserActive(db, u, t) ==
    {m \in ZFrom(db.user[u], t) : SGet(db, m) # NoData}

\* find_by_user(user_id, active_only=False)
FindByUserAll(db, u) == {m \in DOMAIN db.user[u] : SGet(db, m) # NoData}

\* validate_session
ValidateSession(db, t, at) ==
    LET sd == SGet(db, t)
    IN IF sd = NoData THEN "Invalid session"
       ELSE IF "expires_at" \notin DOMAIN sd THEN "KeyError"
       ELSE IF sd.expires_at < at THEN "Session expired"
       ELSE IF "last_activity_at" \notin DOMAIN sd THEN "KeyError"
       ELSE IF 60 * (at - sd.last_activity_at) > INACTIVITY_TIMEOUT_MINUTES
           THEN "Session inactive"
       ELSE "valid"

\* the orders in which a loop can visit the tokens S when they come sorted
\* by key (ascending); equal keys come in the order of the token strings,
\* which are random: any order
Orders(S, key) ==
    {o \in [1..Cardinality(S) -> S] :
        /\ \A i, j \in DOMAIN o : i # j => o[i] # o[j]
        /\ \A i, j \in DOMAIN o : i < j => key[o[i]] <= key[o[j]]}

\* the loop of revoke_user_sessions without its keep_current test
RECURSIVE RevokeLoopIgnoresKeep(_, _, _, _, _)
RevokeLoopIgnoresKeep(db, order, i, keep, count) ==
    IF i > Len(order) THEN [db |-> db, val |-> "count", n |-> count]
    ELSE LET r == DeleteResult(db, order[i], TRUE)
         IN IF r.val = "KeyError"
                THEN [db |-> db, val |-> "KeyError", n |-> count]
            ELSE RevokeLoopIgnoresKeep(r.db, order, i + 1, keep,
                                       IF r.val = "True" THEN count + 1
                                       ELSE count)

\* the loop of revoke_user_sessions / revoke_sessions_by_ip from position i:
\* one awaited delete per session, the first exception ends the call
RECURSIVE RevokeLoop(_, _, _, _, _)
RevokeLoop(db, order, i, keep, count) ==
    IF i > Len(order) THEN [db |-> db, val |-> "count", n |-> count]
    ELSE LET tok == order[i]
             session == SGet(db, tok)
         IN IF "session_token" \notin DOMAIN session
                THEN [db |-> db, val |-> "KeyError", n |-> count]
            ELSE IF keep = tok
                THEN RevokeLoop(db, order, i + 1, keep, count)
            ELSE LET r == DeleteResult(db, tok, TRUE)
                 IN IF r.val = "KeyError"
                        THEN [db |-> db, val |-> "KeyError", n |-> count]
                    ELSE RevokeLoop(r.db, order, i + 1, keep,
                                    IF r.val = "True" THEN count + 1
                                    ELSE count)

\* one batch of cleanup_expired: gather(delete...) with return_exceptions
RECURSIVE GatherDelete(_, _, _)
GatherDelete(db, batch, count) ==
    IF batch = {} THEN [db |-> db, n |-> count]
    ELSE LET tok == CHOOSE x \in batch : TRUE
             r == DeleteResult(db, tok, TRUE)
         IN GatherDelete(r.db, batch \ {tok},
                         IF r.val = "True" THEN count + 1 ELSE count)

Range(order, lo, hi) == {order[k] : k \in {x \in DOMAIN order : lo <= x /\ x <= hi}}

\* the batches of cleanup_expired over the listed tokens, from position i
RECURSIVE CleanupExpiredLoop(_, _, _, _, _)
CleanupExpiredLoop(db, order, i, batch_size, count) ==
    IF i > Len(order) THEN [db |-> db, val |-> "count", n |-> count]
    ELSE LET r == GatherDelete(db, Range(order, i, i + batch_size - 1), 0)
         IN CleanupExpiredLoop(r.db, order, i + batch_size, batch_size,
                               count + r.n)

\* the batches of cleanup_inactive over the listed records, from position i:
\* building a batch reads session["session_token"] of each record
RECURSIVE CleanupInactiveLoop(_, _, _, _, _)
CleanupInactiveLoop(db, order, i, batch_size, count) ==
    IF i > Len(order) THEN [db |-> db, val |-> "count", n |-> count]
    ELSE LET batch == Range(order, i, i + batch_size - 1)
         IN IF \E tok \in batch : "session_token" \notin DOMAIN SGet(db, tok)
                THEN [db |-> db, val |-> "KeyError", n |-> count]
            ELSE LET r == GatherDelete(db, batch, 0)
                 IN CleanupInactiveLoop(r.db, order, i + batch_size,
                                        batch_size, count + r.n)

\* the answers ZRANGE 0 0 can give create for the owner's index
Victims(db, u) == IF DOMAIN db.user[u] = {} THEN {0} ELSE ZFirst(db.user[u])

\* create, from the INCR to the return: victim is the ZRANGE 0 0 answer used
\* when the index holds more than the limit, okDel / ok whether the
\* transactions of the eviction / of the insert commit
CreateResult(db, u, ipa, ttl, t, victim, okDel, ok) ==
    LET id == db.seq + 1
        sd == SessionData(id, u, id, ipa, t + ttl, t)
        d0 == [db EXCEPT !.seq = id]
    IN IF ~CheckSessionLimits(d0, u, t)
           THEN [db |-> d0, val |-> "None", data |-> NoData, evicted |-> {}]
       ELSE LET evict == ZCard(d0.user[u]) > MAX_SESSIONS_PER_USER
                del == IF evict THEN DeleteResult(d0, victim, okDel)
                       ELSE [db |-> d0, val |-> "False"]
            IN IF del.val = "KeyError"
                   THEN [db |-> d0, val |-> "KeyError", data |-> NoData,
                         evicted |-> {}]
               ELSE LET gone == IF del.val = "True" THEN {victim} ELSE {}
                    IN IF ok
                       THEN [db |-> CreatePipeline(del.db, sd, t),
                             val |-> "record", data |-> sd, evicted |-> gone]
                       ELSE [db |-> del.db, val |-> "None", data |-> NoData,
                             evicted |-> gone]

\* update_activity
UpdateActivityResult(db, tok, t, ok) ==
    IF ok THEN [db |-> UpdateActivityPipeline(db, tok, t), val |-> "True"]
    ELSE [db |-> db, val |-> "False"]

\* extend
ExtendResult(db, tok, hours, t, ok) ==
    LET sd == SGet(db, tok)
    IN IF sd = NoData THEN [db |-> db, val |-> "False"]
       ELSE IF "user_id" \notin DOMAIN sd THEN [db |-> db, val |-> "KeyError"]
       ELSE IF ~ok THEN [db |-> db, val |-> "False"]
       ELSE [db |-> ExtendPipeline(db, tok, sd.user_id, t + hours, t),
             val |-> "True"]

\* ------------------------------------------------------ what callers know
HistInit ==
    [ screated |-> {},        \* session tokens a create has returned
      sexpires |-> EmptyMap,  \* their expires_at, as create / extend set it
      sdeleted |-> {},        \* session tokens a delete has returned True for
      rcreated |-> {},        \* reset tokens a create has returned
      rwon |-> {},            \* reset tokens use_token returned True for
      rreuse |-> {},          \* reset tokens the reuse warning was logged for
      rconfirmed |-> {} ]     \* reset tokens a confirm_password_reset succeeded with

\* ------------------------------------- session handlers, one call at a time
Create(u, ipa, ttl, victim, okDel, ok) ==
    /\ sdb.seq < MaxTokens
    /\ victim \in Victims(sdb, u)
    /\ LET r == CreateResult(sdb, u, ipa, ttl, now, victim, okDel, ok)
           tok == sdb.seq + 1
       IN /\ sdb' = r.db
          /\ ret' = Ret(r.val, 0)
          /\ hist' = [hist EXCEPT
                 !.screated = IF r.val = "record" THEN @ \cup {tok} ELSE @,
                 !.sexpires = IF r.val = "record"
                              THEN (tok :> r.data.expires_at) @@ @ ELSE @,
                 !.sdeleted = @ \cup r.evicted]
    /\ UNCHANGED <<now, rdb, task>>

UpdateActivity(tok, ok) ==
    /\ tok \in Presented(sdb.seq)
    /\ LET r == UpdateActivityResult(sdb, tok, now, ok)
       IN /\ sdb' = r.db
          /\ ret' = Ret(r.val, 0)
    /\ UNCHANGED <<now, rdb, task, hist>>

Extend(tok, hours, ok) ==
    /\ tok \in Presented(sdb.seq)
    /\ LET r == ExtendResult(sdb, tok, hours, now, ok)
       IN /\ sdb' = r.db
          /\ ret' = Ret(r.val, 0)
          /\ hist' = [hist EXCEPT
                 !.sexpires = IF r.val = "True" /\ tok \in DOMAIN @
                              THEN [@ EXCEPT ![tok] = now + hours] ELSE @]
    /\ UNCHANGED <<now, rdb, task>>

Delete(tok, ok) ==
    /\ tok \in Presented(sdb.seq)
    /\ LET r == DeleteResult(sdb, tok, ok)
       IN /\ sdb' = r.db
          /\ ret' = Ret(r.val, 0)
          /\ hist' = [hist EXCEPT
                 !.sdeleted = IF r.val = "True" THEN @ \cup {tok} ELSE @]
    /\ UNCHANGED <<now, rdb, task>>

\* the sets of tokens deleted between two databases
Removed(before, after) == DOMAIN before.hash \ DOMAIN after.hash

\* revoke_user_sessions: find_by_user(active_only=False) sorts by
\* last_activity_at, most recent first
RevokeUserSessions(u, keep) ==
    /\ \A m \in FindByUserAll(sdb, u) : "last_activity_at" \in DOMAIN SGet(sdb, m)
    /\ \E order \in Orders(FindByUserAll(sdb, u),
                           [m \in FindByUserAll(sdb, u) |->
                               0 - SGet(sdb, m).last_activity_at]) :
         LET r == RevokeLoop(sdb, order, 1, keep, 0)
         IN /\ sdb' = r.db
            /\ ret' = Ret(r.val, r.n)
            /\ hist' = [hist EXCEPT !.sdeleted = @ \cup Removed(sdb, r.db)]
    /\ UNCHANGED <<now, rdb, task>>

\* find_by_ip: SMEMBERS, then get; the records come in no particular order
FindByIp(db, ipa) ==
    IF ipa \in DOMAIN db.ip THEN {m \in db.ip[ipa] : SGet(db, m) # NoData}
    ELSE {}

RevokeSessionsByIp(ipa) ==
    /\ \E order \in Orders(FindByIp(sdb, ipa), [m \in FindByIp(sdb, ipa) |-> 0]) :
         LET r == RevokeLoop(sdb, order, 1, 0, 0)
         IN /\ sdb' = r.db
            /\ ret' = Ret(r.val, r.n)
            /\ hist' = [hist EXCEPT !.sdeleted = @ \cup Removed(sdb, r.db)]
    /\ UNCHANGED <<now, rdb, task>>

CleanupExpired(batch_size) ==
    /\ \E order \in Orders(ZUpTo(sdb.expiry, now), sdb.expiry) :
         LET r == CleanupExpiredLoop(sdb, order, 1, batch_size, 0)
         IN /\ sdb' = r.db
            /\ ret' = Ret(r.val, r.n)
            /\ hist' = [hist EXCEPT !.sdeleted = @ \cup Removed(sdb, r.db)]
    /\ UNCHANGED <<now, rdb, task>>

\* find_inactive: the records of the tokens idle for inactive_minutes
FindInactive(db, inactive_minutes, t) ==
    {m \in DOMAIN db.activity :
        /\ 60 * db.activity[m] <= 60 * t - inactive_minutes
        /\ SGet(db, m) # NoData}

CleanupInactive(inactive_minutes, batch_size) ==
    /\ \E order \in Orders(FindInactive(sdb, inactive_minutes, now),
                           sdb.activity) :
         LET r == CleanupInactiveLoop(sdb, order, 1, batch_size, 0)
         IN /\ sdb' = r.db
            /\ ret' = Ret(r.val, r.n)
            /\ hist' = [hist EXCEPT !.sdeleted = @ \cup Removed(sdb, r.db)]
    /\ UNCHANGED <<now, rdb, task>>

\* -------------------------------------------- PasswordResetTokenRepository
ResetDbInit ==
    [ hash |-> EmptyMap,     \* TOKEN_KEY: token -> hash
      ttl |-> EmptyMap,      \* expiry of the TOKEN_KEY keys
      user |-> [u \in ResetUsers |-> EmptyMap],   \* USER_TOKENS_KEY zsets
      expiry |-> EmptyMap,   \* EXPIRY_KEY zset
      pending |-> {},        \* PENDING_KEY set
      used |-> {},           \* USED_KEY set
      byid |-> EmptyMap,     \* TOKEN_BY_ID_KEY strings
      seq |-> 0 ]            \* id_seq

\* used_at: "" in the hash, None once parsed
NoTime == 0 - 1

\* get: HGETALL; None when the key holds nothing
RGet(db, t) == IF t \in DOMAIN db.hash THEN db.hash[t] ELSE NoData

ResetSelfExpire(db, t) ==
    LET gone == Expired(db.ttl, t)
    IN [db EXCEPT !.hash = Restrict(@, gone), !.ttl = Restrict(@, gone)]

\* token_data of create; is_used is "0" / "1" in the hash
TokenData(id, u, tok, exp, t) ==
    [ id |-> id, user_id |-> u, reset_token |-> tok, token_expires |-> exp,
      is_used |-> 0, created_at |-> t, used_at |-> NoTime ]

\* the pipeline of create, executed
ResetCreatePipeline(db, td, t) ==
    LET tok == td.reset_token
        d1 == [db EXCEPT !.hash = HSet(@, tok, td)]
        d2 == SExpireAt(d1, tok, td.token_expires, t)
    IN [d2 EXCEPT !.user[td.user_id] = ZAdd(@, tok, td.token_expires),
                  !.expiry = ZAdd(@, tok, td.token_expires),
                  !.pending = @ \cup {tok},
                  !.byid = (td.id :> tok) @@ @]

\* create
ResetCreateResult(db, u, expiry_minutes, t, ok) ==
    LET id == db.seq + 1
        td == TokenData(id, u, id, t + expiry_minutes \div 60, t)
        d0 == [db EXCEPT !.seq = id]
    IN IF ok THEN [db |-> ResetCreatePipeline(d0, td, t), val |-> "record",
                   data |-> td]
       ELSE [db |-> d0, val |-> "None", data |-> NoData]

\* update: redis_updates as prepared from updates (is_used given as 1 / 0)
RedisUpdates(updates, t) ==
    LET flag == IF "is_used" \notin DOMAIN updates THEN EmptyMap
                ELSE IF updates.is_used = 1
                    THEN [is_used |-> 1, used_at |-> t]
                ELSE [is_used |-> 0, used_at |-> NoTime]
    IN flag @@ [f \in DOMAIN updates \ {"is_used"} |-> updates[f]]

\* the pipeline of update, executed
UpdatePipeline(db, tok, redis_updates) ==
    LET d1 == [db EXCEPT !.hash = HSet(@, tok, redis_updates)]
    IN IF "is_used" \in DOMAIN redis_updates /\ redis_updates.is_used = 1
           THEN [d1 EXCEPT !.pending = @ \ {tok}, !.used = @ \cup {tok}]
       ELSE d1

\* update
UpdateResult(db, tok, updates, t, ok) ==
    LET redis_updates == RedisUpdates(updates, t)
    IN IF redis_updates = EmptyMap THEN [db |-> db, val |-> "False"]
       ELSE IF ~ok THEN [db |-> db, val |-> "False"]
       ELSE [db |-> UpdatePipeline(db, tok, redis_updates), val |-> "True"]

\* use_token without its is_used test
UseTokenNoUsedCheck(db, tok, t, ok) ==
    LET token_data == RGet(db, tok)
    IN IF token_data = NoData THEN [db |-> db, val |-> "False"]
       ELSE UpdateResult(db, tok, [is_used |-> 1], t, ok)

\* use_token
UseTokenResult(db, tok, t, ok) ==
    LET token_data == RGet(db, tok)
    IN IF token_data = NoData THEN [db |-> db, val |-> "False"]
       ELSE IF "is_used" \notin DOMAIN token_data
           THEN [db |-> db, val |-> "KeyError"]
       ELSE IF token_data.is_used = 1 THEN [db |-> db, val |-> "False"]
       ELSE UpdateResult(db, tok, [is_used |-> 1], t, ok)

\* use_token logs "Attempt to reuse token"
ReuseWarning(db, tok) ==
    LET token_data == RGet(db, tok)
    IN /\ token_data # NoData
       /\ "is_used" \in DOMAIN token_data
       /\ token_data.is_used = 1

\* the pipeline of delete, executed
ResetDeletePipeline(db, tok, td) ==
    LET d1 == [db EXCEPT !.hash = Without(@, tok), !.ttl = Without(@, tok),
                         !.user[td.user_id] = ZRem(@, tok),
                         !.expiry = ZRem(@, tok),
                         !.pending = @ \ {tok},
                         !.used = @ \ {tok}]
    IN IF "id" \in DOMAIN td THEN [d1 EXCEPT !.byid = Without(@, td.id)]
       ELSE d1

\* delete
ResetDeleteResult(db, tok, ok) ==
    LET td == RGet(db, tok)
    IN IF td = NoData THEN [db |-> db, val |-> "False"]
       ELSE IF "user_id" \notin DOMAIN td THEN [db |-> db, val |-> "KeyError"]
       ELSE IF ~ok THEN [db |-> db, val |-> "False"]
       ELSE [db |-> ResetDeletePipeline(db, tok, td), val |-> "True"]

\* validate_token
ValidateToken(db, tok, t) ==
    LET td == RGet(db, tok)
    IN IF td = NoData THEN "Invalid token"
       ELSE IF "is_used" \notin DOMAIN td THEN "KeyError"
       ELSE IF td.is_used = 1 THEN "Token already used"
       ELSE IF "token_expires" \notin DOMAIN td THEN "KeyError"
       ELSE IF td.token_expires < t THEN "Token expired"
       ELSE "valid"

\* find_by_user(user_id, include_used=True): the tokens of the records
ResetFindByUser(db, u) == {m \in DOMAIN db.user[u] : RGet(db, m) # NoData}

\* gather(delete...) with return_exceptions, as in cleanup_expired
RECURSIVE ResetGatherDelete(_, _, _)
ResetGatherDelete(db, batch, count) ==
    IF batch = {} THEN [db |-> db, n |-> count]
    ELSE LET tok == CHOOSE x \in batch : TRUE
             r == ResetDeleteResult(db, tok, TRUE)
         IN ResetGatherDelete(r.db, batch \ {tok},
                              IF r.val = "True" THEN count + 1 ELSE count)

\* the batches of cleanup_expired over the listed tokens, from position i
RECURSIVE ResetCleanupLoop(_, _, _, _, _)
ResetCleanupLoop(db, order, i, batch_size, count) ==
    IF i > Len(order) THEN [db |-> db, val |-> "count", n |-> count]
    ELSE LET r == ResetGatherDelete(db, Range(order, i, i + batch_size - 1), 0)
         IN ResetCleanupLoop(r.db, order, i + batch_size, batch_size,
                             count + r.n)

\* ---------------------------------- reset-token handlers, one call at a time
ResetCreate(u, expiry_minutes, ok) ==
    /\ rdb.seq < MaxResetTokens
    /\ LET r == ResetCreateResult(rdb, u, expiry_minutes, now, ok)
           tok == rdb.seq + 1
       IN /\ rdb' = r.db
          /\ ret' = Ret(r.val, 0)
          /\ hist' = [hist EXCEPT
                 !.rcreated = IF r.val = "record" THEN @ \cup {tok} ELSE @]
    /\ UNCHANGED <<now, sdb, task>>

\* the updates a caller passes: mark used, mark unused, move the expiry
UpdateInputs(t) ==
    {[is_used |-> 1], [is_used |-> 0], [token_expires |-> MaxTime + 1], EmptyMap}

ResetUpdate(tok, updates, ok) ==
    /\ tok \in Presented(rdb.seq)
    /\ LET r == UpdateResult(rdb, tok, updates, now, ok)
       IN /\ rdb' = r.db
          /\ ret' = Ret(r.val, 0)
    /\ UNCHANGED <<now, sdb, task, hist>>

UseToken(tok, ok) ==
    /\ tok \in Presented(rdb.seq)
    /\ LET r == UseTokenResult(rdb, tok, now, ok)
       IN /\ rdb' = r.db
          /\ ret' = Ret(r.val, 0)
          /\ hist' = [hist EXCEPT
                 !.rwon = IF r.val = "True" THEN @ \cup {tok} ELSE @,
                 !.rreuse = IF ReuseWarning(rdb, tok) THEN @ \cup {tok} ELSE @]
    /\ UNCHANGED <<now, sdb, task>>

ResetDelete(tok, ok) ==
    /\ tok \in Presented(rdb.seq)
    /\ LET r == ResetDeleteResult(rdb, tok, ok)
       IN /\ rdb' = r.db
          /\ ret' = Ret(r.val, 0)
    /\ UNCHANGED <<now, sdb, task, hist>>

ResetCleanupExpired(batch_size) ==
    /\ \E order \in Orders(ZUpTo(rdb.expiry, now), rdb.expiry) :
         LET r == ResetCleanupLoop(rdb, order, 1, batch_size, 0)
         IN /\ rdb' = r.db
            /\ ret' = Ret(r.val, r.n)
    /\ UNCHANGED <<now, sdb, task, hist>>

\* revoke_user_tokens: find_by_user sorts the records by created_at
RevokeUserTokens(u) ==
    /\ LET found == ResetFindByUser(rdb, u)
           raises == \E m \in found : "created_at" \notin DOMAIN RGet(rdb, m)
           r == ResetGatherDelete(rdb, found, 0)
       IN IF raises
          THEN /\ ret' = Ret("KeyError", 0)
               /\ UNCHANGED rdb
          ELSE /\ rdb' = r.db
               /\ ret' = Ret("count", r.n)
    /\ UNCHANGED <<now, sdb, task, hist>>

\* ------------------------------------------------------------- the clock
Tick ==
    /\ now < MaxTime
    /\ now' = now + 1
    /\ sdb' = SessionSelfExpire(sdb, now + 1)
    /\ rdb' = ResetSelfExpire(rdb, now + 1)
    /\ ret' = Ret("", 0)
    /\ UNCHANGED <<task, hist>>

\* the clock moves on by the lifetime of the by-IP sets
Sleep ==
    /\ now + IpIndexTtlHours <= MaxSleepTime
    /\ now' = now + IpIndexTtlHours
    /\ sdb' = SessionSelfExpire(sdb, now + IpIndexTtlHours)
    /\ rdb' = ResetSelfExpire(rdb, now + IpIndexTtlHours)
    /\ ret' = Ret("", 0)
    /\ UNCHANGED <<task, hist>>

Init ==
    /\ now = 0
    /\ sdb = SessionDbInit
    /\ rdb = ResetDbInit
    /\ task = [p \in Workers |-> IdleTask]
    /\ hist = HistInit
    /\ ret = Ret("", 0)

BatchSizes == {1, 2}

\* whether the transaction of a call commits (False: RedisError at EXEC)
TxOutcomes == {TRUE}


\* the session store, one call at a time
Next ==
    \/ \E u \in Users, ipa \in Ips, ttl \in TtlHours, victim \in Tokens \cup {0},
          okDel \in TxOutcomes, ok \in TxOutcomes :
            Create(u, ipa, ttl, victim, okDel, ok)
    \/ \E tok \in Tokens, ok \in TxOutcomes : UpdateActivity(tok, ok)
    \/ \E tok \in Tokens, hours \in ExtendHours, ok \in TxOutcomes :
            Extend(tok, hours, ok)
    \/ \E tok \in Tokens, ok \in TxOutcomes : Delete(tok, ok)
    \/ \E u \in Users, keep \in Tokens \cup {0} : RevokeUserSessions(u, keep)
    \/ \E ipa \in Ips : RevokeSessionsByIp(ipa)
    \/ \E b \in BatchSizes : CleanupExpired(b)
    \/ \E b \in BatchSizes : CleanupInactive(INACTIVITY_TIMEOUT_MINUTES, b)
    \/ Tick

Spec == Init /\ [][Next]_vars

\* the reset-token store, one call at a time
NextReset ==
    \/ \E u \in ResetUsers, m \in ExpiryMinutes, ok \in TxOutcomes : ResetCreate(u, m, ok)
    \/ \E tok \in ResetTokens, updates \in UpdateInputs(now), ok \in TxOutcomes :
            ResetUpdate(tok, updates, ok)
    \/ \E tok \in ResetTokens, ok \in TxOutcomes : UseToken(tok, ok)
    \/ \E tok \in ResetTokens, ok \in TxOutcomes : ResetDelete(tok, ok)
    \/ \E b \in BatchSizes : ResetCleanupExpired(b)
    \/ \E u \in ResetUsers : RevokeUserTokens(u)
    \/ Tick

SpecReset == Init /\ [][NextReset]_vars

\* ------------------------------------------- create, await by await
\* A create in flight: after the INCR it holds its session_data (sd); after
\* _check_session_limits it has buffered its pipeline (at time buf); the
\* ZCARD, the ZRANGE, the delete of the oldest and the EXEC are further awaits
\* between which other handlers run.
CreateBegin(p, u, ipa, ttl) ==
    /\ task[p] = IdleTask
    /\ sdb.seq < MaxTokens
    /\ LET id == sdb.seq + 1
       IN /\ sdb' = [sdb EXCEPT !.seq = id]
          /\ task' = [task EXCEPT ![p] =
                 [pc |-> "check", sd |-> SessionData(id, u, id, ipa, now + ttl, now)]]
    /\ UNCHANGED <<now, rdb, hist, ret>>

CreateCheck(p) ==
    /\ task[p].pc = "check"
    /\ IF CheckSessionLimits(sdb, task[p].sd.user_id, now)
       THEN /\ task' = [task EXCEPT ![p] =
                   [pc |-> "count", sd |-> task[p].sd, buf |-> now]]
            /\ UNCHANGED ret
       ELSE /\ task' = [task EXCEPT ![p] = IdleTask]
            /\ ret' = Ret("None", 0)
    /\ UNCHANGED <<now, sdb, rdb, hist>>

CreateCount(p) ==
    /\ task[p].pc = "count"
    /\ LET session_count == ZCard(sdb.user[task[p].sd.user_id])
       IN task' = [task EXCEPT ![p].pc =
                IF session_count > MAX_SESSIONS_PER_USER THEN "oldest"
                ELSE "exec"]
    /\ UNCHANGED <<now, sdb, rdb, hist, ret>>

CreateEvict(p) ==
    /\ task[p].pc = "oldest"
    /\ \E victim \in Victims(sdb, task[p].sd.user_id) :
         LET r == IF victim = 0 THEN [db |-> sdb, val |-> "False"]
                  ELSE DeleteResult(sdb, victim, TRUE)
         IN /\ sdb' = r.db
            /\ hist' = [hist EXCEPT
                   !.sdeleted = IF r.val = "True" THEN @ \cup {victim} ELSE @]
            /\ IF r.val = "KeyError"
               THEN /\ task' = [task EXCEPT ![p] = IdleTask]
                    /\ ret' = Ret("KeyError", 0)
               ELSE /\ task' = [task EXCEPT ![p] =
                           IF r.val = "True"
                           THEN [pc |-> "exec", sd |-> task[p].sd,
                                 buf |-> task[p].buf, evicted |-> victim]
                           ELSE [task[p] EXCEPT !.pc = "exec"]]
                    /\ UNCHANGED ret
    /\ UNCHANGED <<now, rdb>>

\* the hash as buffered: last_activity_at and created_at are read again
Buffered(t) == [t.sd EXCEPT !.last_activity_at = t.buf, !.created_at = t.buf]

CreateExec(p) ==
    /\ task[p].pc = "exec"
    /\ LET sd == task[p].sd
       IN /\ sdb' = CreatePipeline(sdb, Buffered(task[p]), now)
          /\ hist' = [hist EXCEPT
                 !.screated = @ \cup {sd.session_token},
                 !.sexpires = (sd.session_token :> sd.expires_at) @@ @]
    /\ task' = [task EXCEPT ![p] = IdleTask]
    /\ ret' = Ret("record", 0)
    /\ UNCHANGED <<now, rdb>>

\* EXEC raises RedisError: nothing of the buffered pipeline is applied and
\* create returns None
CreateExecFail(p) ==
    /\ task[p].pc = "exec"
    /\ task' = [task EXCEPT ![p] = IdleTask]
    /\ ret' = Ret("None", 0)
    /\ UNCHANGED <<now, sdb, rdb, hist>>

\* creates running concurrently, with deletes and the clock
NextConcurrent ==
    \/ \E p \in Procs, u \in Users, ipa \in Ips, ttl \in TtlHours :
            CreateBegin(p, u, ipa, ttl)
    \/ \E p \in Procs : CreateCheck(p)
    \/ \E p \in Procs : CreateCount(p)
    \/ \E p \in Procs : CreateEvict(p)
    \/ \E p \in Procs : CreateExec(p)
    \/ \E tok \in Tokens : Delete(tok, TRUE)
    \/ Tick

SpecConcurrent == Init /\ [][NextConcurrent]_vars

\* revoke_user_sessions, one call at a time, over the sessions that creates
\* running concurrently have stored
NextRevoke ==
    \/ \E p \in Procs, u \in Users, ipa \in Ips, ttl \in LongTtlHours :
            CreateBegin(p, u, ipa, ttl)
    \/ \E p \in Procs : CreateCheck(p)
    \/ \E p \in Procs : CreateCount(p)
    \/ \E p \in Procs : CreateEvict(p)
    \/ \E p \in Procs : CreateExec(p)
    \/ \E u \in Users, keep \in Tokens \cup {0} : RevokeUserSessions(u, keep)
    \/ Tick

SpecRevoke == Init /\ [][NextRevoke]_vars

\* the arguments create and extend accept: any int, zero and negative too
AnyTtlHours == {0 - 1, 0, 1}

AnyExpiryMinutes == {0, 60}

\* creates and extends with any accepted argument, the creates also await by
\* await so that the clock moves between the INCR and the EXEC
NextTtl ==
    \/ \E u \in ResetUsers, ipa \in Ips, ttl \in AnyTtlHours, victim \in Tokens \cup {0} :
            Create(u, ipa, ttl, victim, TRUE, TRUE)
    \/ \E tok \in Tokens, hours \in AnyTtlHours : Extend(tok, hours, TRUE)
    \/ \E p \in {1}, u \in ResetUsers, ipa \in Ips, ttl \in AnyTtlHours :
            CreateBegin(p, u, ipa, ttl)
    \/ \E p \in {1} : CreateCheck(p)
    \/ \E p \in {1} : CreateCount(p)
    \/ \E p \in {1} : CreateEvict(p)
    \/ \E p \in {1} : CreateExec(p)
    \/ \E u \in ResetUsers, m \in AnyExpiryMinutes : ResetCreate(u, m, TRUE)
    \/ Tick

SpecTtl == Init /\ [][NextTtl]_vars

\* sessions that live longer than the by-IP sets
DayTtlHours == {1, 48}

DayExtendHours == {25}

\* one call at a time, over more than a day
NextIp ==
    \/ \E u \in Users, ipa \in Ips, ttl \in DayTtlHours, victim \in Tokens \cup {0} :
            Create(u, ipa, ttl, victim, TRUE, TRUE)
    \/ \E tok \in Tokens, hours \in DayExtendHours : Extend(tok, hours, TRUE)
    \/ \E tok \in Tokens : Delete(tok, TRUE)
    \/ Tick
    \/ Sleep

SpecIp == Init /\ [][NextIp]_vars

\* ------------------------------------ update_activity, await by await
\* update_activity reads the clock, buffers its pipeline and awaits the EXEC
UpdateActivityBegin(p, tok) ==
    /\ task[p] = IdleTask
    /\ tok \in Presented(sdb.seq)
    /\ task' = [task EXCEPT ![p] = [pc |-> "touch", tok |-> tok, at |-> now]]
    /\ UNCHANGED <<now, sdb, rdb, hist, ret>>

UpdateActivityExec(p) ==
    /\ task[p].pc = "touch"
    /\ sdb' = UpdateActivityPipeline(sdb, task[p].tok, task[p].at)
    /\ task' = [task EXCEPT ![p] = IdleTask]
    /\ ret' = Ret("True", 0)
    /\ UNCHANGED <<now, rdb, hist>>

\* update_activity calls running concurrently on the sessions created
NextActivity ==
    \/ \E u \in Users, ipa \in Ips, ttl \in LongTtlHours, victim \in Tokens \cup {0} :
            Create(u, ipa, ttl, victim, TRUE, TRUE)
    \/ \E p \in Procs, tok \in Tokens : UpdateActivityBegin(p, tok)
    \/ \E p \in Procs : UpdateActivityExec(p)
    \/ Tick

SpecActivity == Init /\ [][NextActivity]_vars

\* ------------------------------------------ use_token, await by await
\* use_token awaits get, tests is_used on what it read, and then awaits
\* update, which runs the transaction
UseTokenBegin(p, tok) ==
    /\ task[p] = IdleTask
    /\ tok \in Presented(rdb.seq)
    /\ LET token_data == RGet(rdb, tok)
       IN IF token_data = NoData
          THEN /\ ret' = Ret("False", 0)
               /\ UNCHANGED <<task, hist>>
          ELSE IF "is_used" \notin DOMAIN token_data
          THEN /\ ret' = Ret("KeyError", 0)
               /\ UNCHANGED <<task, hist>>
          ELSE IF token_data.is_used = 1
          THEN /\ ret' = Ret("False", 0)
               /\ hist' = [hist EXCEPT !.rreuse = @ \cup {tok}]
               /\ UNCHANGED task
          ELSE /\ task' = [task EXCEPT ![p] = [pc |-> "use", tok |-> tok]]
               /\ UNCHANGED <<ret, hist>>
    /\ UNCHANGED <<now, sdb, rdb>>

UseTokenExec(p) ==
    /\ task[p].pc = "use"
    /\ LET r == UpdateResult(rdb, task[p].tok, [is_used |-> 1], now, TRUE)
       IN /\ rdb' = r.db
          /\ ret' = Ret(r.val, 0)
          /\ hist' = [hist EXCEPT
                 !.rwon = IF r.val = "True" THEN @ \cup {task[p].tok} ELSE @]
    /\ task' = [task EXCEPT ![p] = IdleTask]
    /\ UNCHANGED <<now, sdb>>

\* use_token calls running concurrently on the tokens created
NextUse ==
    \/ \E u \in ResetUsers, m \in ExpiryMinutes : ResetCreate(u, m, TRUE)
    \/ \E p \in Procs, tok \in ResetTokens : UseTokenBegin(p, tok)
    \/ \E p \in Procs : UseTokenExec(p)
    \/ Tick

SpecUse == Init /\ [][NextUse]_vars

\* ------------------- AuthService.confirm_password_reset, await by await
\* validate_token; an invalid token ends the call with (False, error)
ConfirmValidate(p, tok) ==
    /\ task[p] = IdleTask
    /\ tok \in Presented(rdb.seq)
    /\ LET answer == ValidateToken(rdb, tok, now)
       IN IF answer = "valid"
          THEN /\ task' = [task EXCEPT ![p] = [pc |-> "cget", tok |-> tok]]
               /\ UNCHANGED ret
          ELSE /\ ret' = Ret(answer, 0)
               /\ UNCHANGED task
    /\ UNCHANGED <<now, sdb, rdb, hist>>

\* reset_repo.get: the token data whose user_id the call goes on with
ConfirmGet(p) ==
    /\ task[p].pc = "cget"
    /\ LET token_data == RGet(rdb, task[p].tok)
       IN IF token_data = NoData
          THEN /\ task' = [task EXCEPT ![p] = IdleTask]
               /\ ret' = Ret("Invalid token", 0)
          ELSE IF "user_id" \notin DOMAIN token_data
          THEN /\ task' = [task EXCEPT ![p] = IdleTask]
               /\ ret' = Ret("KeyError", 0)
          ELSE /\ task' = [task EXCEPT ![p] =
                      [pc |-> "cpassword", tok |-> task[p].tok,
                       user_id |-> token_data.user_id]]
               /\ UNCHANGED ret
    /\ UNCHANGED <<now, sdb, rdb, hist>>

\* user_repo.update stores the new password hash
ConfirmPassword(p) ==
    /\ task[p].pc = "cpassword"
    /\ task' = [task EXCEPT ![p].pc = "cuse"]
    /\ UNCHANGED <<now, sdb, rdb, hist, ret>>

\* reset_repo.use_token; what it returns is not looked at
ConfirmUse(p) ==
    /\ task[p].pc = "cuse"
    /\ LET r == UseTokenResult(rdb, task[p].tok, now, TRUE)
       IN /\ rdb' = r.db
          /\ hist' = [hist EXCEPT
                 !.rwon = IF r.val = "True" THEN @ \cup {task[p].tok} ELSE @,
                 !.rreuse = IF ReuseWarning(rdb, task[p].tok)
                            THEN @ \cup {task[p].tok} ELSE @]
          /\ IF r.val = "KeyError"
             THEN /\ task' = [task EXCEPT ![p] = IdleTask]
                  /\ ret' = Ret("KeyError", 0)
             ELSE /\ task' = [task EXCEPT ![p].pc = "crevoke"]
                  /\ UNCHANGED ret
    /\ UNCHANGED <<now, sdb>>

\* session_repo.revoke_user_sessions(user_id), then return (True, None)
ConfirmRevoke(p) ==
    /\ task[p].pc = "crevoke"
    /\ LET u == task[p].user_id
           found == FindByUserAll(sdb, u)
       IN IF \E m \in found : "last_activity_at" \notin DOMAIN SGet(sdb, m)
          THEN /\ ret' = Ret("KeyError", 0)
               /\ UNCHANGED <<sdb, hist>>
          ELSE \E order \in Orders(found,
                       [m \in found |-> 0 - SGet(sdb, m).last_activity_at]) :
                 LET r == RevokeLoop(sdb, order, 1, 0, 0)
                 IN /\ sdb' = r.db
                    /\ ret' = Ret(IF r.val = "count" THEN "True" ELSE r.val, 0)
                    /\ hist' = [hist EXCEPT
                           !.sdeleted = @ \cup Removed(sdb, r.db),
                           !.rconfirmed = IF r.val = "count"
                                          THEN @ \cup {task[p].tok} ELSE @]
    /\ task' = [task EXCEPT ![p] = IdleTask]
    /\ UNCHANGED <<now, rdb>>

\* password resets confirmed concurrently
NextConfirm ==
    \/ \E u \in ResetUsers, m \in ExpiryMinutes : ResetCreate(u, m, TRUE)
    \/ \E u \in ResetUsers, ipa \in Ips, ttl \in LongTtlHours, victim \in Tokens \cup {0} :
            Create(u, ipa, ttl, victim, TRUE, TRUE)
    \/ \E p \in Procs, tok \in ResetTokens : ConfirmValidate(p, tok)
    \/ \E p \in Procs : ConfirmGet(p)
    \/ \E p \in Procs : ConfirmPassword(p)
    \/ \E p \in Procs : ConfirmUse(p)
    \/ \E p \in Procs : ConfirmRevoke(p)
    \/ Tick

SpecConfirm == Init /\ [][NextConfirm]_vars

\* --------------------------------- cleanup_inactive, await by await
\* find_inactive has returned: the call holds the records it listed; reading
\* session["session_token"] of a listed record raises when the field is missing
CleanupInactiveList(p, inactive_minutes) ==
    /\ task[p] = IdleTask
    /\ LET listed == FindInactive(sdb, inactive_minutes, now)
       IN IF \E tok \in listed : "session_token" \notin DOMAIN SGet(sdb, tok)
          THEN /\ ret' = Ret("KeyError", 0)
               /\ UNCHANGED task
          ELSE /\ task' = [task EXCEPT ![p] = [pc |-> "sweep", listed |-> listed]]
               /\ UNCHANGED ret
    /\ UNCHANGED <<now, sdb, rdb, hist>>

\* the gathered deletes of the listed tokens (one batch), then the return
CleanupInactiveDelete(p) ==
    /\ task[p].pc = "sweep"
    /\ LET r == GatherDelete(sdb, task[p].listed, 0)
       IN /\ sdb' = r.db
          /\ ret' = Ret("count", r.n)
          /\ hist' = [hist EXCEPT !.sdeleted = @ \cup Removed(sdb, r.db)]
    /\ task' = [task EXCEPT ![p] = IdleTask]
    /\ UNCHANGED <<now, rdb>>

\* cleanup_inactive running while sessions are created and used
NextSweep ==
    \/ \E u \in Users, ipa \in Ips, ttl \in LongTtlHours, victim \in Tokens \cup {0} :
            Create(u, ipa, ttl, victim, TRUE, TRUE)
    \/ \E tok \in Tokens : UpdateActivity(tok, TRUE)
    \/ \E p \in Procs : CleanupInactiveList(p, INACTIVITY_TIMEOUT_MINUTES)
    \/ \E p \in Procs : CleanupInactiveDelete(p)
    \/ Tick

SpecSweep == Init /\ [][NextSweep]_vars

\* ---------------------------------------------- extend, await by await
\* extend awaits get, computes new_expiry and buffers its pipeline, which
\* needs session_data["user_id"]
ExtendBegin(p, tok, hours) ==
    /\ task[p] = IdleTask
    /\ tok \in Presented(sdb.seq)
    /\ LET session_data == SGet(sdb, tok)
       IN IF session_data = NoData
          THEN /\ ret' = Ret("False", 0)
               /\ UNCHANGED task
          ELSE IF "user_id" \notin DOMAIN session_data
          THEN /\ ret' = Ret("KeyError", 0)
               /\ UNCHANGED task
          ELSE /\ task' = [task EXCEPT ![p] =
                      [pc |-> "extend", tok |-> tok,
                       user_id |-> session_data.user_id,
                       new_expiry |-> now + hours]]
               /\ UNCHANGED ret
    /\ UNCHANGED <<now, sdb, rdb, hist>>

ExtendExec(p) ==
    /\ task[p].pc = "extend"
    /\ sdb' = ExtendPipeline(sdb, task[p].tok, task[p].user_id,
                             task[p].new_expiry, now)
    /\ hist' = [hist EXCEPT
           !.sexpires = IF task[p].tok \in DOMAIN @
                        THEN [@ EXCEPT ![task[p].tok] = task[p].new_expiry]
                        ELSE @]
    /\ task' = [task EXCEPT ![p] = IdleTask]
    /\ ret' = Ret("True", 0)
    /\ UNCHANGED <<now, rdb>>

\* the calls that touch a session after it was deleted or has expired
NextDead ==
    \/ \E u \in ResetUsers, ipa \in Ips, ttl \in TtlHours, victim \in Tokens \cup {0} :
            Create(u, ipa, ttl, victim, TRUE, TRUE)
    \/ \E tok \in Tokens : UpdateActivity(tok, TRUE)
    \/ \E p \in {1}, tok \in Tokens, hours \in ExtendHours : ExtendBegin(p, tok, hours)
    \/ \E p \in {1} : ExtendExec(p)
    \/ \E tok \in Tokens : Delete(tok, TRUE)
    \/ Tick

SpecDead == Init /\ [][NextDead]_vars

\* three creates in flight at once, each EXEC committing or failing
NextEvict ==
    \/ \E p \in Workers, u \in Users, ipa \in Ips, ttl \in LongTtlHours :
            CreateBegin(p, u, ipa, ttl)
    \/ \E p \in Workers : CreateCheck(p)
    \/ \E p \in Workers : CreateCount(p)
    \/ \E p \in Workers : CreateEvict(p)
    \/ \E p \in Workers : CreateExec(p)
    \/ \E p \in Workers : CreateExecFail(p)

SpecEvict == Init /\ [][NextEvict]_vars

\* ------------------------------------------------------------- the claims
HasRecord(db, tok) == tok \in DOMAIN db.hash

\* the structures of the session store that hold tok
InSessionIndexes(db, tok) ==
    \/ tok \in DOMAIN db.expiry
    \/ tok \in DOMAIN db.activity
    \/ \E u \in Users : tok \in DOMAIN db.user[u]
    \/ \E i \in DOMAIN db.ip : tok \in db.ip[i]
    \/ \E i \in DOMAIN db.byid : db.byid[i] = tok

\* C1: for every owner, at every instant, find_by_user(o, active_only=True)
\* returns at most MAX_SESSIONS_PER_USER records, also while creates for the
\* owner run concurrently.
C1_AtMostMaxLive ==
    \A u \in Users :
        Cardinality(FindByUserActive(sdb, u, now)) <= MAX_SESSIONS_PER_USER

\* the owner's index holds no expired entry and MAX_SESSIONS_PER_USER live ones
AtLimit(u) ==
    /\ \A m \in DOMAIN sdb.user[u] : sdb.user[u][m] > now /\ HasRecord(sdb, m)
    /\ ZCard(sdb.user[u]) = MAX_SESSIONS_PER_USER

\* C2: a create for an owner who holds MAX_SESSIONS_PER_USER unexpired
\* sessions stores the new session, leaves exactly MAX_SESSIONS_PER_USER live
\* sessions, and the one session that is gone had the smallest expires_at.
C2_CreateAtLimitEvictsOldest ==
    [][\A u \in Users, ipa \in Ips, ttl \in TtlHours, victim \in Tokens :
           (AtLimit(u) /\ Create(u, ipa, ttl, victim, TRUE, TRUE)) =>
             LET before == FindByUserActive(sdb, u, now)
                 after == FindByUserActive(sdb', u, now')
             IN /\ ret'.val = "record"
                /\ sdb'.seq \in after
                /\ Cardinality(after) = MAX_SESSIONS_PER_USER
                /\ \E gone \in before :
                     /\ before \ after = {gone}
                     /\ \A m \in before : sdb.user[u][gone] <= sdb.user[u][m]
      ]_vars

\* C3: a created token is in its owner's by-owner sorted set and in
\* the by-expiry sorted set if and only if its primary record exists.
C3_IndexedIffRecord ==
    \A tok \in hist.screated :
        HasRecord(sdb, tok) <=>
            /\ tok \in DOMAIN sdb.expiry
            /\ \E u \in Users : tok \in DOMAIN sdb.user[u]

\* C4: at every instant at or after a session's expires_at (as create or the
\* last extend set it) get returns None, whatever calls came before.
C4_GoneAtExpiry ==
    \A tok \in hist.screated :
        hist.sexpires[tok] <= now => SGet(sdb, tok) = NoData

\* C5: for a created token whose expires_at <= now, validate_session returns
\* (False, "Session expired"), with no cleanup needed.
C5_ExpiredReason ==
    \A tok \in hist.screated \ hist.sdeleted :
        hist.sexpires[tok] <= now =>
            ValidateSession(sdb, tok, now) = "Session expired"

\* C6: use_token on a stored token that is not used returns True, sets is_used
\* and used_at and moves the token from the pending set to the used set;
\* use_token on a stored token that is used returns False and leaves the
\* record, used_at included, and every index as it was; on a token whose key
\* is gone it returns False and changes nothing.  (A hash that holds no
\* is_used field is not a record create has stored.)
C6_UseTokenOnce ==
    [][\A tok \in ResetTokens :
         UseToken(tok, TRUE) =>
           LET td == RGet(rdb, tok)
           IN IF td = NoData THEN ret'.val = "False" /\ rdb' = rdb
              ELSE IF "is_used" \notin DOMAIN td THEN TRUE
              ELSE IF td.is_used = 0
                  THEN /\ ret'.val = "True"
                       /\ RGet(rdb', tok).is_used = 1
                       /\ RGet(rdb', tok).used_at = now
                       /\ tok \in rdb'.used
                       /\ tok \notin rdb'.pending
              ELSE /\ ret'.val = "False"
                   /\ rdb' = rdb
      ]_vars

\* a token create returned, used once, and at a later instant refused with
\* the reuse warning, its record still used with the used_at of the first use
C6_Witness ==
    \E tok \in hist.rcreated :
        /\ tok \in hist.rwon
        /\ tok \in hist.rreuse
        /\ ret.val = "False"
        /\ RGet(rdb, tok) # NoData
        /\ RGet(rdb, tok).is_used = 1
        /\ RGet(rdb, tok).used_at # NoTime
        /\ RGet(rdb, tok).used_at < now

\* C7: every stored reset token is in exactly one of the pending set and the
\* used set, and a token of the used set never returns to the pending set.
C7_ExactlyOneSet ==
    [][/\ \A tok \in hist'.rcreated \cap DOMAIN rdb'.hash :
            (tok \in rdb'.pending) # (tok \in rdb'.used)
       /\ \A tok \in rdb.used : tok \notin rdb'.pending
      ]_vars

\* C8: once delete(t) has returned True, get(t) returns None and find_by_user
\* of no owner returns t, whatever calls follow.
C8_DeletedStaysGone ==
    \A tok \in hist.sdeleted :
        /\ SGet(sdb, tok) = NoData
        /\ \A u \in Users : tok \notin FindByUserActive(sdb, u, now)

\* C9: delete(t) on a stored session removes the primary record and t's
\* entries in every index and mapping and returns True; on an absent token
\* it returns False and changes nothing.
C9_DeleteRemovesAll ==
    [][\A tok \in Tokens :
         Delete(tok, TRUE) =>
           IF HasRecord(sdb, tok)
           THEN /\ ret'.val = "True"
                /\ ~HasRecord(sdb', tok)
                /\ ~InSessionIndexes(sdb', tok)
           ELSE /\ ret'.val = "False"
                /\ sdb' = sdb
      ]_vars

\* C10: update_activity(t) on a token with no record returns False and
\* changes neither the primary store nor the by-activity index.
C10_UpdateActivityAbsent ==
    [][\A tok \in Tokens :
         (~HasRecord(sdb, tok) /\ UpdateActivity(tok, TRUE)) =>
           /\ ret'.val = "False"
           /\ sdb' = sdb
      ]_vars

C12_CreateReturnsStored ==
    [][\A p \in Procs :
         CreateExec(p) =>
           LET returned == task[p].sd
               stored == SGet(sdb', returned.session_token)
               ttl == returned.expires_at - returned.created_at
               kept == stored.expires_at - stored.created_at
           IN stored # NoData =>
                /\ ttl - 1 <= kept /\ kept <= ttl + 1
                /\ stored = returned
      ]_vars

\* C13: cleanup_expired(b) over a store whose by-expiry index tracks n tokens
\* with expires_at <= now deletes all n of them and returns n.
C13_CleanupExpiredDeletesAll ==
    [][\A b \in BatchSizes :
         CleanupExpired(b) =>
           LET tracked == ZUpTo(sdb.expiry, now)
           IN /\ ret'.val = "count"
              /\ ret'.n = Cardinality(tracked)
              /\ \A tok \in tracked :
                   ~HasRecord(sdb', tok) /\ ~InSessionIndexes(sdb', tok)
      ]_vars

\* the parts of the store that hold the session tok
SessionEntries(db, tok) ==
    [ hash |-> SGet(db, tok),
      ttl |-> IF tok \in DOMAIN db.ttl THEN {db.ttl[tok]} ELSE {},
      expiry |-> IF tok \in DOMAIN db.expiry THEN {db.expiry[tok]} ELSE {},
      activity |-> IF tok \in DOMAIN db.activity THEN {db.activity[tok]} ELSE {},
      ip |-> {i \in DOMAIN db.ip : tok \in db.ip[i]},
      byid |-> {i \in DOMAIN db.byid : db.byid[i] = tok} ]

\* C14: when revoke_user_sessions(u, keep_current=k) has returned its count,
\* the live sessions of u are {k} if k was a live session of u and none
\* otherwise, the count is the number of sessions removed, and the sessions
\* and the index of every other owner are as they were.
C14_RevokeKeepsOnlyCurrent ==
    [][\A u \in Users, k \in Tokens \cup {0} :
         (ret'.val = "count" /\ task' = task /\ RevokeUserSessions(u, k)) =>
           LET live == FindByUserActive(sdb, u, now)
           IN /\ FindByUserActive(sdb', u, now) = (IF k \in live THEN {k} ELSE {})
              /\ ret'.n = Cardinality(Removed(sdb, sdb'))
              /\ \A v \in Users \ {u} : sdb'.user[v] = sdb.user[v]
              /\ \A tok \in DOMAIN sdb.hash :
                   ("user_id" \in DOMAIN sdb.hash[tok] /\ sdb.hash[tok].user_id # u)
                       => SessionEntries(sdb', tok) = SessionEntries(sdb, tok)
      ]_vars

\* a revoke has returned 1 and left its owner the session it was told to
\* keep, beside the untouched session of another owner
C14_Witness ==
    /\ ret.val = "count" /\ ret.n = 1
    /\ Cardinality(hist.sdeleted) = 1
    /\ \A u \in Users : Cardinality(FindByUserActive(sdb, u, now)) = 1

\* C15: validate_session answers "not found" for a token with no record and,
\* for a token with a record, valid exactly when expires_at > now and
\* now - last_activity_at is within the inactivity window, and otherwise
\* invalid with the reason of the first check that fails (expired, then
\* inactive); it always answers with one of these pairs.
C15_ValidateAnswers ==
    \A tok \in Tokens :
        LET sd == SGet(sdb, tok)
            answer == ValidateSession(sdb, tok, now)
        IN IF sd = NoData THEN answer = "Invalid session"
           ELSE /\ answer \in {"valid", "Session expired", "Session inactive"}
                /\ answer = IF sd.expires_at <= now THEN "Session expired"
                            ELSE IF 60 * (now - sd.last_activity_at)
                                        > INACTIVITY_TIMEOUT_MINUTES
                                THEN "Session inactive"
                            ELSE "valid"

\* C16: a create whose backing-store transactions (the eviction and the
\* insert) succeed returns a full record, also for an owner who holds
\* MAX_SESSIONS_PER_USER live sessions: create returns None only when a
\* transaction fails.
C16_NoneOnlyOnFailedTransaction ==
    [][\A u \in Users, ipa \in Ips, ttl \in TtlHours, victim \in Tokens \cup {0} :
         Create(u, ipa, ttl, victim, TRUE, TRUE) =>
           /\ ret'.val = "record"
           /\ HasRecord(sdb', sdb'.seq)
           /\ DOMAIN sdb'.hash[sdb'.seq] = SessionFields ]_vars

\* C17: when a create returns None, because it was rejected or because its
\* EXEC failed, the call has changed no record and no index entry: it has
\* evicted no session, so the victim of an eviction is never gone while the
\* new session is absent.
C17_NoneLeavesStoreAsItWas ==
    [][\A p \in Workers :
         ((CreateCheck(p) \/ CreateExecFail(p)) /\ ret'.val = "None") =>
           /\ "evicted" \notin DOMAIN task[p]
           /\ [sdb' EXCEPT !.seq = 0] = [sdb EXCEPT !.seq = 0] ]_vars

\* C18: every primary record that exists carries all the fields of its kind:
\* no sequence of calls, calls on absent tokens included, leaves a session
\* key or a reset-token key that holds only some of them.
C18_RecordsAreWhole ==
    /\ \A tok \in DOMAIN sdb.hash : DOMAIN sdb.hash[tok] = SessionFields
    /\ \A tok \in DOMAIN rdb.hash :
          DOMAIN rdb.hash[tok] = DOMAIN TokenData(0, 0, 0, 0, 0)

\* C19: the sessions in the store have different ids, and a session has a
\* greater id than every session created before it, also when the creates
\* ran concurrently.
C19_IdsUniqueAndIncreasing ==
    \A a \in DOMAIN sdb.hash, b \in DOMAIN sdb.hash :
        (DOMAIN sdb.hash[a] = SessionFields /\ DOMAIN sdb.hash[b] = SessionFields)
            => /\ a # b => sdb.hash[a].id # sdb.hash[b].id
               /\ sdb.hash[a].created_at < sdb.hash[b].created_at
                    => sdb.hash[a].id < sdb.hash[b].id

\* C20: cleanup_expired and cleanup_inactive always return, never raise, and
\* the count they return is the number of records the call itself removed.
C20_CleanupReturnsItsCount ==
    [][\A b \in BatchSizes :
         (CleanupExpired(b) \/ CleanupInactive(INACTIVITY_TIMEOUT_MINUTES, b)) =>
           /\ ret'.val = "count"
           /\ ret'.n = Cardinality(Removed(sdb, sdb')) ]_vars

C22_SetsFollowIsUsed ==
    \A tok \in DOMAIN rdb.hash :
        DOMAIN rdb.hash[tok] = DOMAIN TokenData(0, 0, 0, 0, 0)
            => /\ tok \in rdb.used <=> rdb.hash[tok].is_used = 1
               /\ tok \in rdb.pending <=> rdb.hash[tok].is_used = 0

\* C23: every live session is in the by-IP set of its ip_address, so that
\* find_by_ip returns it, also a session created with a time-to-live above
\* 24 hours and a session kept alive by extend.
C23_LiveSessionInIpSet ==
    \A tok \in DOMAIN sdb.hash :
        (DOMAIN sdb.hash[tok] = SessionFields /\ sdb.hash[tok].expires_at > now)
            => tok \in FindByIp(sdb, sdb.hash[tok].ip_address)

\* C24: every live session is in the by-activity index with a score equal
\* to its last_activity_at field, and the score of a token in the index
\* never decreases.
C24_ActivityScoreFollowsField ==
    [][/\ \A tok \in DOMAIN sdb'.hash :
            (DOMAIN sdb'.hash[tok] = SessionFields /\ sdb'.hash[tok].expires_at > now')
                => /\ tok \in DOMAIN sdb'.activity
                   /\ sdb'.activity[tok] = sdb'.hash[tok].last_activity_at
       /\ \A tok \in DOMAIN sdb.activity \cap DOMAIN sdb'.activity :
            (HasRecord(sdb, tok) /\ HasRecord(sdb', tok)
             /\ DOMAIN sdb'.hash[tok] = SessionFields /\ sdb'.hash[tok].expires_at > now')
                => sdb'.activity[tok] >= sdb.activity[tok] ]_vars

\* C25: the id mapping holds an entry for id i exactly when the record with
\* id i is stored, and get_by_id(i) returns that record when it is stored
\* and None otherwise.
C25_IdMappingIffRecord ==
    \A i \in Tokens :
        LET withId == {tok \in DOMAIN sdb.hash :
                         "id" \in DOMAIN sdb.hash[tok] /\ sdb.hash[tok].id = i}
        IN /\ i \in DOMAIN sdb.byid <=> withId # {}
           /\ IF withId = {} THEN GetById(sdb, i) = NoData
              ELSE \E tok \in withId : GetById(sdb, i) = sdb.hash[tok]

\* C26: when cleanup_expired has completed, no index (by-owner, by-expiry,
\* by-activity; pending and used for reset tokens) holds a token whose
\* expiry score is at most the time of the sweep, also when the token's
\* record had expired on its own before the sweep.
C26_SweepLeavesNoDangling ==
    [][/\ \A b \in BatchSizes :
            (ret'.val = "count" /\ CleanupExpired(b)) =>
              /\ \A tok \in DOMAIN sdb'.expiry : sdb'.expiry[tok] > now
              /\ \A u \in Users : \A tok \in DOMAIN sdb'.user[u] :
                    sdb'.user[u][tok] > now
              /\ \A tok \in ZUpTo(sdb.expiry, now) : tok \notin DOMAIN sdb'.activity
       /\ \A b \in BatchSizes :
            (ret'.val = "count" /\ ResetCleanupExpired(b)) =>
              /\ \A tok \in DOMAIN rdb'.expiry : rdb'.expiry[tok] > now
              /\ \A u \in ResetUsers : \A tok \in DOMAIN rdb'.user[u] :
                    rdb'.user[u][tok] > now
              /\ \A tok \in ZUpTo(rdb.expiry, now) :
                    tok \notin rdb'.pending \cup rdb'.used ]_vars

\* C27: of the use_token calls on one pending reset token, concurrent ones
\* included, at most one returns True: a call that returns True is the first
\* to do so for its token.
C27_OneUseTokenWins ==
    [][\A p \in Procs :
         (UseTokenExec(p) /\ ret'.val = "True") => task[p].tok \notin hist.rwon ]_vars

\* C28: for any reset token, at most one confirm_password_reset call with it
\* succeeds, concurrent calls included: a call that has changed the password
\* and returns True is the first to do so with its token.
C28_OneConfirmSucceeds ==
    [][\A p \in Procs :
         (ConfirmRevoke(p) /\ ret'.val = "True") => task[p].tok \notin hist.rconfirmed ]_vars

\* C29: cleanup_inactive(window) deletes no session whose last_activity_at,
\* at the moment of the delete, is newer than now - window: an
\* update_activity that lands between the listing and the delete keeps the
\* session.
C29_SweepSparesActiveSession ==
    [][\A p \in Procs :
         CleanupInactiveDelete(p) =>
           \A tok \in Removed(sdb, sdb') :
               60 * sdb.hash[tok].last_activity_at
                   <= 60 * now - INACTIVITY_TIMEOUT_MINUTES ]_vars

\* C30: a session token that was deleted, or whose expires_at has passed,
\* stays dead: whatever calls follow, validate_session does not return valid
\* for it and keeps answering (invalid, reason) instead of raising.
C30_DeadStaysDead ==
    \A tok \in hist.screated :
        (tok \in hist.sdeleted \/ hist.sexpires[tok] <= now)
            => ValidateSession(sdb, tok, now)
                   \in {"Invalid session", "Session expired", "Session inactive"}

====
